---------------------------- MODULE Spec2Model ----------------------------
(***************************************************************************)
(* A model of logrus-opsgenie-hook (src/main.go): the HookConfig          *)
(* validation, the NewHook constructor and the Fire pipeline that maps a   *)
(* logrus entry to an OpsGenie CreateAlertRequest and submits it.         *)
(*                                                                         *)
(* Go strings are TLA+ strings.  A Go slice is a header (array, len, cap)  *)
(* over a backing array, so that append's in-place writes are visible.     *)
(* A value stored in entry.Data (an interface{}) is a record carrying its  *)
(* dynamic type t and its content (s, n or l according to t).              *)
(***************************************************************************)
EXTENDS Integers, Sequences, FiniteSets, TLC

(***************************************************************************)
(* Bounds of the model.                                                    *)
(***************************************************************************)
\* the largest number of fields an entry carries
MaxFields == 2
\* the largest spare capacity (cap - len) of the DefaultTags slice passed to NewHook
MaxSpare == 2

(***************************************************************************)
(* Constants of the program.                                               *)
(***************************************************************************)
EndpointEU == "https://api.eu.opsgenie.com"
EndpointUS == "https://api.opsgenie.com"

OverridePrefix == "ogh:"
OverrideAlias == OverridePrefix \o "alias"
OverrideSource == OverridePrefix \o "source"
OverrideTags == OverridePrefix \o "tags"
OverrideEntity == OverridePrefix \o "entity"
OverridePriority == OverridePrefix \o "priority"

\* alertsv2.P1 .. alertsv2.P5, the values isValidPriority compares with
P1 == "P1"
P2 == "P2"
P3 == "P3"
P4 == "P4"
P5 == "P5"

(***************************************************************************)
(* strings.HasPrefix                                                       *)
(***************************************************************************)
HasPrefix(s, prefix) ==
    /\ Len(s) >= Len(prefix)
    /\ SubSeq(s, 1, Len(prefix)) = prefix

(***************************************************************************)
(* crc32.ChecksumIEEE and strconv.FormatUint(_, 16).  A 32-bit word is the *)
(* pair <<hi, lo>> of its two 16-bit halves.                               *)
(***************************************************************************)
\* the byte of each character the modelled messages are written with (ASCII)
Ord ==
    (" " :> 32) @@ ("a" :> 97) @@ ("b" :> 98) @@ ("d" :> 100) @@ ("f" :> 102) @@
    ("i" :> 105) @@ ("k" :> 107) @@ ("l" :> 108) @@ ("o" :> 111) @@
    ("s" :> 115) @@ ("u" :> 117)

Bytes(s) == [i \in 1..Len(s) |-> Ord[SubSeq(s, i, i)]]

\* the reversed IEEE polynomial 0xedb88320
IEEE == <<60856, 33568>>
\* 0xffffffff
Ones == <<65535, 65535>>

RECURSIVE Xor16(_, _)
Xor16(a, b) ==
    IF a = 0 THEN b
    ELSE IF b = 0 THEN a
    ELSE 2 * Xor16(a \div 2, b \div 2) + ((a + b) % 2)

Xor(v, w) == <<Xor16(v[1], w[1]), Xor16(v[2], w[2])>>
ShiftRight(w) == <<w[1] \div 2, (w[2] \div 2) + 32768 * (w[1] % 2)>>

Halves == 0..65535

\* n shift-and-reduce steps of the register
crcBits[n \in 0..8, crc \in Halves \X Halves] ==
    IF n = 0 THEN crc
    ELSE crcBits[n - 1, IF crc[2] % 2 = 1 THEN Xor(ShiftRight(crc), IEEE)
                        ELSE ShiftRight(crc)]

\* the register after the bytes: each byte is xored in and takes eight steps
crcUpdate(bytes) ==
    LET reg[n \in 0..Len(bytes)] ==
            IF n = 0 THEN Ones
            ELSE crcBits[8, Xor(reg[n - 1], <<0, bytes[n]>>)]
    IN  reg[Len(bytes)]

ChecksumIEEE(bytes) == Xor(crcUpdate(bytes), Ones)

HexDigits == <<"0", "1", "2", "3", "4", "5", "6", "7", "8", "9", "a", "b", "c", "d", "e", "f">>

RECURSIVE Pow16(_)
Pow16(n) == IF n = 0 THEN 1 ELSE 16 * Pow16(n - 1)

\* the k-th hexadecimal digit of a word, k = 0 the least significant
Nibble(w, k) == IF k < 4 THEN (w[2] \div Pow16(k)) % 16 ELSE (w[1] \div Pow16(k - 4)) % 16

RECURSIVE hexFrom(_, _)
hexFrom(w, k) ==
    IF k < 0 THEN "" ELSE HexDigits[Nibble(w, k) + 1] \o hexFrom(w, k - 1)

\* strconv.FormatUint(uint64(h), 16): lowercase, no leading zeros, "0" for zero
FormatUint16(w) ==
    LET nz == {k \in 0..7 : Nibble(w, k) # 0}
    IN  IF nz = {} THEN "0"
        ELSE hexFrom(w, CHOOSE k \in nz : \A j \in nz : j <= k)

(***************************************************************************)
(* fmt.Sprintf("%v", value) for the dynamic types of the modelled values.  *)
(***************************************************************************)
RECURSIVE Itoa(_)
Itoa(n) ==
    IF n < 0 THEN "-" \o Itoa(0 - n)
    ELSE IF n < 10 THEN HexDigits[n + 1]
    ELSE Itoa(n \div 10) \o HexDigits[(n % 10) + 1]

RECURSIVE JoinSpace(_)
JoinSpace(l) ==
    IF Len(l) = 0 THEN ""
    ELSE IF Len(l) = 1 THEN l[1]
    ELSE l[1] \o " " \o JoinSpace(Tail(l))

Sprintf(v) ==
    CASE v.t = "int" -> Itoa(v.n)
      [] v.t = "[]string" -> "[" \o JoinSpace(v.l) \o "]"
      [] v.t = "nil" -> "<nil>"
      [] OTHER -> v.s

(***************************************************************************)
(* Values of entry.Data: the dynamic type and the content.                 *)
(***************************************************************************)
StringV(s) == [t |-> "string", s |-> s, n |-> 0, l |-> <<>>]
PriorityV(s) == [t |-> "alertsv2.Priority", s |-> s, n |-> 0, l |-> <<>>]
ErrorV(s) == [t |-> "error", s |-> s, n |-> 0, l |-> <<>>]
IntV(n) == [t |-> "int", s |-> "", n |-> n, l |-> <<>>]
StringsV(l) == [t |-> "[]string", s |-> "", n |-> 0, l |-> l]
NilV == [t |-> "nil", s |-> "", n |-> 0, l |-> <<>>]

\* entry.Data[key].(T): the comma-ok type assertion on a map lookup
IsA(entry, key, type) ==
    /\ key \in DOMAIN entry.Data
    /\ entry.Data[key].t = type

(***************************************************************************)
(* The inputs: entries, configurations, credentials.                       *)
(***************************************************************************)
Messages == {"disk full", "ob"}

Keys ==
    {OverrideAlias, OverrideSource, OverrideTags, OverrideEntity, OverridePriority,
     "ogh:custom", "ogh:", "ogh", "error", "user"}

FieldValues(key) ==
    CASE key = OverrideAlias -> {StringV("k1"), IntV(7)}
      [] key = OverrideSource -> {StringV("cron"), IntV(7)}
      [] key = OverrideEntity -> {StringV("db1"), StringsV(<<"db1">>)}
      [] key = OverrideTags -> {StringsV(<<"urgent">>), StringsV(<<"urgent", "db">>), StringV("urgent")}
      [] key = OverridePriority -> {PriorityV(P2), PriorityV("P9"), StringV(P2), IntV(1)}
      [] key = "error" -> {ErrorV("disk at 99%"), NilV}
      [] key = "user" -> {StringV("bob"), IntV(42)}
      [] OTHER -> {StringV("x")}

RECURSIVE DataOver(_)
DataOver(D) ==
    IF D = {} THEN {<<>>}
    ELSE LET k == CHOOSE x \in D : TRUE
         IN  {(k :> v) @@ d : v \in FieldValues(k), d \in DataOver(D \ {k})}

Entries ==
    {[Message |-> m, Data |-> d] :
        m \in Messages,
        d \in UNION {DataOver(D) : D \in {K \in SUBSET Keys : Cardinality(K) <= MaxFields}}}

\* the entries two concurrent callers log: a message and at most a tags override
TagEntries ==
    {[Message |-> "ob", Data |-> d] :
        d \in {<<>>} \cup {(OverrideTags :> StringsV(l)) :
                                l \in {<<"urgent">>, <<"db">>, <<"db", "urgent">>}}}

Team(name) == [Name |-> name]
TeamSlices ==
    {[nil |-> TRUE, elems |-> <<>>],
     [nil |-> FALSE, elems |-> <<Team("ops")>>],
     [nil |-> FALSE, elems |-> <<Team("ops"), Team("db")>>]}

\* A []string: its backing array ("nil" for the nil slice, "zero" for the
\* empty literal, "cfg" for the array the caller of NewHook allocated,
\* "own" for an array allocated by the running call), its len and its cap.
NilSlice == [array |-> "nil", len |-> 0, cap |-> 0]
EmptySlice == [array |-> "zero", len |-> 0, cap |-> 0]

\* the default tags a caller configures, with the array they live in
TagArrays ==
    {[slice |-> [array |-> "cfg", len |-> 1, cap |-> 1 + spare],
      mem |-> <<"infra">> \o [i \in 1..spare |-> ""]] : spare \in 0..MaxSpare}
    \cup {[slice |-> NilSlice, mem |-> <<>>]}

Configs ==
    {[DefaultTeams |-> teams, DefaultTags |-> tags.slice, DefaultEntity |-> es[1],
      DefaultSource |-> es[2], DefaultPriority |-> prio] :
        teams \in TeamSlices, tags \in TagArrays,
        es \in {<<"", "">>, <<"host", "svc-a">>}, prio \in {"", P1, "P9"}}

ApiKeys == {"", "my-api-token"}
Endpoints == {"", EndpointEU}

\* a nil error
Nil == "<nil>"
\* what the SDK's client constructor and its Create call can answer
SdkErrors == {Nil, "sdk: failure"}

(***************************************************************************)
(* The state.                                                              *)
(***************************************************************************)
VARIABLES
    newHook,    \* the call of NewHook: its arguments (with the elements of the
                \* DefaultTags passed), what Validate and AlertV2 did, the error returned
    hook,       \* the hook NewHook returned (nil before, and when it failed)
    heap,       \* the backing array of the DefaultTags slice the caller configured
    call,       \* per goroutine, the Fire call it runs: position, locals, results
    failed      \* some Fire call so far returned an error

vars == <<newHook, hook, heap, call, failed>>

\* the goroutines the logging framework dispatches entries on
Goroutines == {1, 2}

(***************************************************************************)
(* isValidPriority, HookConfig.Validate, NewHook                           *)
(***************************************************************************)
\* variant: any non-empty priority passes
isValidPriority_nonEmpty(priority) == priority # ""

isValidPriority(priority) ==
    \/ priority = P1
    \/ priority = P2
    \/ priority = P3
    \/ priority = P4
    \/ priority = P5

\* variant: a nil DefaultTags is left nil
Validate_keepsNilTags(c) ==
    LET c1 == IF c.DefaultTeams.nil
              THEN [c EXCEPT !.DefaultTeams = [nil |-> FALSE, elems |-> <<>>]]
              ELSE c
        c3 == IF c1.DefaultPriority = ""
              THEN [c1 EXCEPT !.DefaultPriority = "P3"]
              ELSE c1
    IN  IF c3.DefaultPriority \notin {"P1", "P2", "P3", "P4", "P5"}
        THEN [config |-> c3, err |-> "invalid priority"]
        ELSE [config |-> c3, err |-> "<nil>"]

\* c.Validate(): the sanitized configuration and the error returned
Validate(c) ==
    LET c1 == IF c.DefaultTeams.nil
              THEN [c EXCEPT !.DefaultTeams = [nil |-> FALSE, elems |-> <<>>]]
              ELSE c
        c2 == IF c1.DefaultTags.array = "nil"
              THEN [c1 EXCEPT !.DefaultTags = EmptySlice]
              ELSE c1
        c3 == IF c2.DefaultPriority = ""
              THEN [c2 EXCEPT !.DefaultPriority = P3]
              ELSE c2
    IN  IF ~isValidPriority(c3.DefaultPriority)
        THEN [config |-> c3, err |-> "invalid priority"]
        ELSE [config |-> c3, err |-> Nil]

ZeroConfig ==
    [DefaultTeams |-> [nil |-> TRUE, elems |-> <<>>], DefaultTags |-> NilSlice,
     DefaultEntity |-> "", DefaultSource |-> "", DefaultPriority |-> ""]
NilHook == [nil |-> TRUE, config |-> ZeroConfig]
NotValidated(config) == [called |-> FALSE, config |-> config, err |-> Nil]
NotCalled == "not called"

\* variant: the endpoint is not checked
NewHookRet_noEndpointCheck(apiKey, endpoint, config, sdkErr) ==
    IF apiKey = ""
    THEN [hook |-> NilHook, err |-> "api key must be specified",
          validate |-> NotValidated(config), alertV2 |-> NotCalled]
    ELSE LET v == Validate(config)
             validate == [called |-> TRUE, config |-> v.config, err |-> v.err]
         IN  IF v.err # Nil
             THEN [hook |-> NilHook, err |-> v.err, validate |-> validate,
                   alertV2 |-> NotCalled]
             ELSE IF sdkErr # Nil
             THEN [hook |-> NilHook, err |-> sdkErr, validate |-> validate,
                   alertV2 |-> sdkErr]
             ELSE [hook |-> [nil |-> FALSE, config |-> v.config], err |-> Nil,
                   validate |-> validate, alertV2 |-> sdkErr]

\* NewHook(apiKey, endpoint, config), where cli.AlertV2() answers sdkErr:
\* the hook and the error returned, with the trace of config.Validate() and
\* of cli.AlertV2()
NewHookRet(apiKey, endpoint, config, sdkErr) ==
    IF apiKey = ""
    THEN [hook |-> NilHook, err |-> "api key must be specified",
          validate |-> NotValidated(config), alertV2 |-> NotCalled]
    ELSE IF endpoint = ""
    THEN [hook |-> NilHook, err |-> "endpoint must be specified",
          validate |-> NotValidated(config), alertV2 |-> NotCalled]
    ELSE LET v == Validate(config)
             validate == [called |-> TRUE, config |-> v.config, err |-> v.err]
         IN  IF v.err # Nil
             THEN [hook |-> NilHook, err |-> v.err, validate |-> validate,
                   alertV2 |-> NotCalled]
             ELSE IF sdkErr # Nil
             THEN [hook |-> NilHook, err |-> sdkErr, validate |-> validate,
                   alertV2 |-> sdkErr]
             ELSE [hook |-> [nil |-> FALSE, config |-> v.config], err |-> Nil,
                   validate |-> validate, alertV2 |-> sdkErr]

(***************************************************************************)
(* The field-mapping functions of Fire.                                    *)
(***************************************************************************)
\* variant: the override is used whenever the field is present, whatever its type
alias_untyped(entry) ==
    IF OverrideAlias \in DOMAIN entry.Data
    THEN entry.Data[OverrideAlias].s
    ELSE FormatUint16(ChecksumIEEE(Bytes(entry.Message)))

\* strconv.FormatUint(uint64(crc32.ChecksumIEEE([]byte(message))), 16),
\* tabulated once for the messages logged
RECURSIVE checksumTable(_)
checksumTable(messages) ==
    IF messages = {} THEN <<>>
    ELSE LET m == CHOOSE x \in messages : TRUE
         IN  (m :> FormatUint16(ChecksumIEEE(Bytes(m)))) @@ checksumTable(messages \ {m})

checksum == checksumTable(Messages)

alias(entry) ==
    IF IsA(entry, OverrideAlias, "string")
    THEN entry.Data[OverrideAlias].s
    ELSE checksum[entry.Message]

description(entry) ==
    IF IsA(entry, "error", "error")
    THEN entry.Message \o "\n" \o entry.Data["error"].s
    ELSE entry.Message

\* The range loop of teams.  The repository declares no go.mod, so the loop
\* variable has the semantics of Go before 1.22: `team` is one variable for
\* the whole loop, each iteration assigns it the next element and appends its
\* address.  st.mem is the memory at the addresses taken, st.teams the
\* addresses appended.
teamAddr(i) == 1

RECURSIVE teamsLoop(_, _, _)
teamsLoop(DefaultTeams, i, st) ==
    IF i > Len(DefaultTeams) THEN st
    ELSE teamsLoop(DefaultTeams, i + 1,
                   [mem |-> (teamAddr(i) :> DefaultTeams[i]) @@ st.mem,
                    teams |-> Append(st.teams, teamAddr(i))])

\* the teams the returned recipients point to
teams(h) ==
    LET st == teamsLoop(h.config.DefaultTeams.elems, 1, [mem |-> <<>>, teams |-> <<>>])
    IN  [i \in 1..Len(st.teams) |-> st.mem[st.teams[i]]]

\* variant: only the five recognized override keys are skipped
skipped_recognized(key) ==
    key \in {OverrideAlias, OverrideSource, OverrideTags, OverrideEntity, OverridePriority}

\* the keys the loop of details skips
skipped(key) == HasPrefix(key, OverridePrefix)

details(entry) ==
    [key \in {k \in DOMAIN entry.Data : ~skipped(k)} |-> Sprintf(entry.Data[key])]

entity(h, entry) ==
    IF IsA(entry, OverrideEntity, "string")
    THEN entry.Data[OverrideEntity].s
    ELSE h.config.DefaultEntity

source(h, entry) ==
    IF IsA(entry, OverrideSource, "string")
    THEN entry.Data[OverrideSource].s
    ELSE h.config.DefaultSource

priority(h, entry) ==
    IF /\ IsA(entry, OverridePriority, "alertsv2.Priority")
       /\ isValidPriority(entry.Data[OverridePriority].s)
    THEN entry.Data[OverridePriority].s
    ELSE h.config.DefaultPriority

(***************************************************************************)
(* tags: `tags := h.config.DefaultTags` copies the slice header, append     *)
(* writes into the array behind it when the capacity allows.               *)
(***************************************************************************)
\* entry.Data[OverrideTags].([]string)
tagsOverrideOk(entry) == IsA(entry, OverrideTags, "[]string")
tagsOverride(entry) == IF tagsOverrideOk(entry) THEN entry.Data[OverrideTags].l ELSE <<>>

\* append(s, elems...) extends s in place when its capacity has the room
appendFits(s, elems) == s.len + Len(elems) <= s.cap
\* variant: the appended elements are written from the start of the array
appendIndex_fromStart(s, i) == i
\* variant: the new array holds the appended elements only
appendGrown_replace(old, elems) == elems

\* in place, the i-th appended element is written to this slot of the array
appendIndex(s, i) == s.len + i
\* otherwise the elements of s and elems are copied to a new array
appendGrown(old, elems) == old \o elems

\* the elements of a slice as goroutine g reads them
ReadSlice(s, g) ==
    CASE s.array = "cfg" -> SubSeq(heap, 1, s.len)
      [] s.array = "own" -> SubSeq(call[g].own, 1, s.len)
      [] OTHER -> <<>>

fieldsBeforeTags(h, entry) ==
    [Message |-> entry.Message, Alias |-> alias(entry),
     Description |-> description(entry), Teams |-> teams(h)]

fieldsAfterTags(h, entry) ==
    [Details |-> details(entry), Entity |-> entity(h, entry),
     Source |-> source(h, entry), Priority |-> priority(h, entry)]

\* variant: the error of the client is dropped
FireRet_swallow(err) == "<nil>"

\* the error Fire returns, given the error of h.client.Create
FireRet(err) == err

(***************************************************************************)
(* The initial state: NewHook not yet called, no Fire call running.        *)
(***************************************************************************)
NoEntry == [Message |-> "", Data |-> <<>>]
Idle ==
    [pc |-> "idle", entry |-> NoEntry, alert |-> <<>>, tags |-> NilSlice, i |-> 0,
     own |-> <<>>, creates |-> 0, request |-> <<>>, err |-> Nil, ret |-> Nil]

Init ==
    /\ newHook = [called |-> FALSE, apiKey |-> "", endpoint |-> "", config |-> ZeroConfig,
                  defaultTags |-> <<>>, validate |-> NotValidated(ZeroConfig),
                  alertV2 |-> NotCalled, err |-> Nil]
    /\ hook = NilHook
    /\ heap = <<>>
    /\ call = [g \in Goroutines |-> Idle]
    /\ failed = FALSE

(***************************************************************************)
(* NewHook(apiKey, endpoint, config)                                       *)
(***************************************************************************)
NewHook(apiKey, endpoint, tagArray, config, sdkErr) ==
    /\ config.DefaultTags = tagArray.slice
    /\ LET r == NewHookRet(apiKey, endpoint, config, sdkErr)
       IN  /\ newHook' = [called |-> TRUE, apiKey |-> apiKey, endpoint |-> endpoint,
                          config |-> config,
                          defaultTags |-> SubSeq(tagArray.mem, 1, tagArray.slice.len),
                          validate |-> r.validate, alertV2 |-> r.alertV2, err |-> r.err]
           /\ hook' = r.hook
    /\ heap' = tagArray.mem
    /\ UNCHANGED <<call, failed>>

(***************************************************************************)
(* Fire(entry) on goroutine g.  The composite literal evaluates its fields *)
(* in order; a step ends where the call writes or reads memory another     *)
(* call can reach: each element append writes into the configured array,   *)
(* and the read of the request by client.Create.                           *)
(***************************************************************************)
FireBegin(g, entry) ==
    /\ LET tags == hook.config.DefaultTags
           elems == tagsOverride(entry)
           before == fieldsBeforeTags(hook, entry)
           after == fieldsAfterTags(hook, entry)
           c == [Idle EXCEPT !.entry = entry]
       IN  call' = [call EXCEPT ![g] =
             IF ~tagsOverrideOk(entry) \/ Len(elems) = 0
             THEN [c EXCEPT !.pc = "create", !.tags = tags,
                            !.alert = before @@ [Tags |-> tags] @@ after]
             ELSE IF appendFits(tags, elems)
             THEN [c EXCEPT !.pc = "append", !.tags = tags, !.i = 1, !.alert = before]
             ELSE LET array == appendGrown(ReadSlice(tags, g), elems)
                      grown == [array |-> "own", len |-> Len(array), cap |-> Len(array)]
                  IN  [c EXCEPT !.pc = "create", !.tags = grown, !.own = array,
                                !.alert = before @@ [Tags |-> grown] @@ after]]
    /\ UNCHANGED <<newHook, hook, heap, failed>>

\* append, in place: the next element is written behind the slice's length
AppendWrite(g) ==
    LET c == call[g]
        elems == tagsOverride(c.entry)
        tags == [c.tags EXCEPT !.len = @ + Len(elems)]
    IN  /\ c.pc = "append"
        /\ heap' = [heap EXCEPT ![appendIndex(c.tags, c.i)] = elems[c.i]]
        /\ call' = [call EXCEPT ![g] =
             IF c.i < Len(elems)
             THEN [c EXCEPT !.i = @ + 1]
             ELSE [c EXCEPT !.pc = "create", !.tags = tags,
                            !.alert = c.alert @@ [Tags |-> tags]
                                      @@ fieldsAfterTags(hook, c.entry)]]
        /\ UNCHANGED <<newHook, hook, failed>>

\* _, err := h.client.Create(alert); return err: the client reads the
\* request and answers err, which is the value Fire is about to return
Create(g, err) ==
    LET c == call[g]
    IN  /\ c.pc = "create"
        /\ call' = [call EXCEPT ![g] =
             [c EXCEPT !.pc = "done", !.creates = @ + 1, !.err = err, !.ret = FireRet(err),
                       !.request = [c.alert EXCEPT !.Tags = ReadSlice(c.alert.Tags, g)]]]
        /\ UNCHANGED <<newHook, hook, heap, failed>>

\* Fire returns to logrus: the locals of the call are gone
FireReturn(g) ==
    LET c == call[g]
    IN  /\ c.pc = "done"
        /\ call' = [call EXCEPT ![g] = Idle]
        /\ failed' = (failed \/ c.ret # Nil)
        /\ UNCHANGED <<newHook, hook, heap>>

(***************************************************************************)
(* Spec: one caller logs entries, one Fire call at a time.                 *)
(* ConcSpec: two goroutines log entries, their Fire calls interleave.      *)
(***************************************************************************)
\* the program constructs its hook once, before it logs
Construct ==
    /\ ~newHook.called
    /\ \E apiKey \in ApiKeys, endpoint \in Endpoints, tagArray \in TagArrays,
          config \in Configs, sdkErr \in SdkErrors :
           NewHook(apiKey, endpoint, tagArray, config, sdkErr)

\* logrus calls Fire on goroutine g, with an entry of the set logged
Fire(g, logged) ==
    /\ ~hook.nil
    /\ call[g].pc = "idle"
    /\ \E entry \in logged : FireBegin(g, entry)

Next ==
    \/ Construct
    \/ Fire(1, Entries)
    \/ AppendWrite(1)
    \/ \E err \in SdkErrors : Create(1, err)
    \/ FireReturn(1)

Spec == Init /\ [][Next]_vars

ConcNext ==
    \/ Construct
    \/ \E g \in Goroutines : Fire(g, TagEntries)
    \/ \E g \in Goroutines : AppendWrite(g)
    \/ \E g \in Goroutines, err \in SdkErrors : Create(g, err)
    \/ \E g \in Goroutines : FireReturn(g)

ConcSpec == Init /\ [][ConcNext]_vars

(***************************************************************************)
(* The properties.                                                         *)
(***************************************************************************)
ValidPriorities == {"P1", "P2", "P3", "P4", "P5"}
ReservedKeys ==
    {"ogh:alias", "ogh:source", "ogh:tags", "ogh:entity", "ogh:priority", "ogh:custom", "ogh:"}
AlertFields ==
    {"Message", "Alias", "Description", "Teams", "Tags", "Details", "Entity", "Source",
     "Priority"}
\* CRC-32 (IEEE) test vectors, in lowercase hexadecimal
KnownChecksum == ("disk full" :> "976b6e01") @@ ("ob" :> "65e3")

Done(g) == call[g].pc = "done"
Has(g, key) == key \in DOMAIN call[g].entry.Data
HasTyped(g, key, type) == Has(g, key) /\ call[g].entry.Data[key].t = type
Field(g, key) == call[g].entry.Data[key]

\* C1: once the hook is built, the configured DefaultTags stay the sequence
\* they were at construction, whatever Fire calls ran, and a Fire call whose
\* entry has no `ogh:tags` field submits exactly that sequence as its tags.
C1_TagIsolation ==
    ~hook.nil =>
        /\ hook.config.DefaultTags = newHook.validate.config.DefaultTags
        /\ ReadSlice(hook.config.DefaultTags, 1) = newHook.defaultTags
        /\ \A g \in Goroutines :
             Done(g) /\ ~Has(g, OverrideTags) => call[g].request.Tags = newHook.defaultTags

\* a Fire call without override has submitted the defaults after an earlier
\* call appended its override into the spare capacity of the configured array
C1_Witness ==
    /\ Done(1) /\ ~Has(1, OverrideTags)
    /\ newHook.defaultTags = <<"infra">>
    /\ call[1].request.Tags = <<"infra">>
    /\ Len(heap) > 1 /\ heap[2] = "urgent"

\* C2: under concurrent Fire calls, every call submits the DefaultTags
\* followed by its own override tags, also when the configured slice has
\* spare capacity.
C2_ConcurrentTags ==
    \A g \in Goroutines :
        Done(g) /\ HasTyped(g, OverrideTags, "[]string") =>
            call[g].request.Tags = newHook.defaultTags \o Field(g, OverrideTags).l

\* C3: the submitted tags are the DefaultTags followed by the `ogh:tags`
\* override when it is a sequence of strings, the DefaultTags alone when the
\* field is absent.
C3_TagsAppended ==
    Done(1) =>
        /\ HasTyped(1, OverrideTags, "[]string") =>
             call[1].request.Tags = newHook.defaultTags \o Field(1, OverrideTags).l
        /\ ~Has(1, OverrideTags) => call[1].request.Tags = newHook.defaultTags

C3_Witness ==
    /\ Done(1)
    /\ HasTyped(1, OverrideTags, "[]string")
    /\ call[1].request.Tags = <<"infra", "urgent", "db">>

\* C4: the submitted priority is the `ogh:priority` field when it is of the
\* priority type and one of P1..P5, the configured default otherwise; it is
\* always one of P1..P5 and the override raises no error of its own.
C4_Priority ==
    Done(1) =>
        /\ call[1].request.Priority =
             IF /\ HasTyped(1, OverridePriority, "alertsv2.Priority")
                /\ Field(1, OverridePriority).s \in ValidPriorities
             THEN Field(1, OverridePriority).s
             ELSE newHook.validate.config.DefaultPriority
        /\ call[1].request.Priority \in ValidPriorities
        /\ call[1].ret = call[1].err

C4_Witness ==
    /\ Done(1)
    /\ HasTyped(1, OverridePriority, "alertsv2.Priority")
    /\ Field(1, OverridePriority).s = "P9"
    /\ call[1].request.Priority = "P1"
    /\ call[1].ret = "<nil>"

\* what Validate is to make of a configuration it accepts
Sanitized(c) ==
    [c EXCEPT !.DefaultTeams = [nil |-> FALSE, elems |-> c.DefaultTeams.elems],
              !.DefaultTags = IF c.DefaultTags.array = "nil" THEN EmptySlice ELSE c.DefaultTags,
              !.DefaultPriority = IF c.DefaultPriority = "" THEN "P3" ELSE c.DefaultPriority]
BadPriority(c) == c.DefaultPriority # "" /\ c.DefaultPriority \notin ValidPriorities
ValidationFailure ==
    \/ newHook.apiKey = ""
    \/ newHook.endpoint = ""
    \/ BadPriority(newHook.config)

\* C5 as stated: NewHook fails exactly when the API key is empty, the
\* endpoint is empty or the default priority is invalid, and then returns an
\* error and no hook; otherwise it returns a hook holding the validated config.
C5_Original ==
    newHook.called =>
        /\ ValidationFailure => hook.nil /\ newHook.err # "<nil>"
        /\ ~ValidationFailure =>
             /\ newHook.err = "<nil>"
             /\ ~hook.nil
             /\ hook.config = Sanitized(newHook.config)

\* C5, amended: as C5_Original, with a fourth failure: the error of the SDK's
\* client constructor, returned as it is, with no hook.
C5_Constructor ==
    newHook.called =>
        /\ newHook.apiKey = "" => newHook.err = "api key must be specified"
        /\ newHook.apiKey # "" /\ newHook.endpoint = "" =>
             newHook.err = "endpoint must be specified"
        /\ newHook.apiKey # "" /\ newHook.endpoint # "" /\ BadPriority(newHook.config) =>
             newHook.err = "invalid priority"
        /\ ValidationFailure => newHook.alertV2 = "not called"
        /\ ~ValidationFailure => newHook.err = newHook.alertV2
        /\ hook.nil <=> newHook.err # "<nil>"
        /\ ~hook.nil => hook.config = Sanitized(newHook.config)

\* NewHook has returned the error of the SDK's client constructor
C5_Witness ==
    /\ newHook.called
    /\ ~ValidationFailure
    /\ newHook.err = "sdk: failure"
    /\ hook.nil

\* C6: Validate fails exactly on a non-empty priority outside P1..P5 and
\* turns an empty one into P3; once it succeeded the teams and tags are non-nil
\* and the priority is one of P1..P5, and so they are in the config of the hook
\* in every later state.
C6_Validated ==
    /\ newHook.validate.called =>
         /\ newHook.validate.err # "<nil>" <=> BadPriority(newHook.config)
         /\ newHook.config.DefaultPriority = "" =>
              newHook.validate.config.DefaultPriority = "P3"
         /\ newHook.validate.err = "<nil>" =>
              /\ ~newHook.validate.config.DefaultTeams.nil
              /\ newHook.validate.config.DefaultTags.array # "nil"
              /\ newHook.validate.config.DefaultPriority \in ValidPriorities
    /\ ~hook.nil =>
         /\ ~hook.config.DefaultTeams.nil
         /\ hook.config.DefaultTags.array # "nil"
         /\ hook.config.DefaultPriority \in ValidPriorities

\* a hook built from a config with nil teams, nil tags and no priority has fired
C6_Witness ==
    /\ Done(1)
    /\ newHook.config.DefaultTeams.nil
    /\ newHook.config.DefaultTags.array = "nil"
    /\ newHook.config.DefaultPriority = ""
    /\ hook.config.DefaultPriority = "P3"

\* C7: the keys of the submitted details are exactly the entry's field names
\* that do not start with `ogh:`.
C7_Details ==
    Done(1) =>
        DOMAIN call[1].request.Details = DOMAIN call[1].entry.Data \ ReservedKeys

C7_Witness ==
    /\ Done(1)
    /\ DOMAIN call[1].entry.Data = {"ogh:custom", "error"}
    /\ DOMAIN call[1].request.Details = {"error"}

\* C8: the submitted team recipients are as many as the configured
\* DefaultTeams and the i-th recipient denotes the i-th configured team.
C8_Teams ==
    Done(1) =>
        /\ Len(call[1].request.Teams) = Len(hook.config.DefaultTeams.elems)
        /\ \A i \in 1..Len(call[1].request.Teams) :
             call[1].request.Teams[i] = hook.config.DefaultTeams.elems[i]

\* C9: a Fire call calls the client's Create once, after all nine fields of
\* the request are assembled, and returns the error Create answered; a
\* failure leaves the hook as NewHook built it.
C9_Submission ==
    \A g \in Goroutines :
        /\ call[g].pc \in {"idle", "append", "create"} => call[g].creates = 0
        /\ Done(g) =>
             /\ call[g].creates = 1
             /\ call[g].ret = call[g].err
             /\ DOMAIN call[g].alert = AlertFields
             /\ DOMAIN call[g].request = AlertFields
             /\ \A f \in AlertFields \ {"Tags"} : call[g].request[f] = call[g].alert[f]
        /\ failed => ~hook.nil /\ hook.config = newHook.validate.config

\* a Fire call has submitted and succeeded after an earlier one failed
C9_Witness ==
    /\ failed
    /\ Done(1)
    /\ call[1].creates = 1
    /\ call[1].ret = "<nil>"

\* C10: alias, entity and source are the `ogh:` field when it is a string;
\* when it is absent or of another type they are the checksum of the message,
\* DefaultEntity and DefaultSource, and Fire returns what the client answered.
C10_StringOverrides ==
    Done(1) =>
        /\ call[1].request.Alias =
             IF HasTyped(1, OverrideAlias, "string") THEN Field(1, OverrideAlias).s
             ELSE KnownChecksum[call[1].entry.Message]
        /\ call[1].request.Entity =
             IF HasTyped(1, OverrideEntity, "string") THEN Field(1, OverrideEntity).s
             ELSE newHook.config.DefaultEntity
        /\ call[1].request.Source =
             IF HasTyped(1, OverrideSource, "string") THEN Field(1, OverrideSource).s
             ELSE newHook.config.DefaultSource
        /\ call[1].ret = call[1].err

\* an alias override that is an integer has been ignored
C10_Witness ==
    /\ Done(1)
    /\ HasTyped(1, OverrideAlias, "int")
    /\ call[1].entry.Message = "disk full"
    /\ call[1].request.Alias = "976b6e01"
    /\ call[1].ret = "<nil>"

=============================================================================
